---- MODULE Spec2Model ----
(***************************************************************************)
(* Museum Alive (src/app.py): a Streamlit page script.  Every user         *)
(* interaction re-executes the script top to bottom (one "page run") in    *)
(* the browser session that caused it.  The model follows one page run     *)
(* statement by statement for each session; the process environment, the  *)
(* st.cache_resource cache and the working directory are shared by all     *)
(* sessions of the process.                                                *)
(*                                                                         *)
(* The source's Chinese string literals are written in ASCII here.         *)
(***************************************************************************)
EXTENDS Naturals, Sequences, FiniteSets, TLC

(* Number of audio chunks the speech service streams for one text. *)
NChunks == 1

Sessions == {"A", "B"}

(* ------------------------------------------------------------------ data *)

None == "<None>"

(* Values of DEEPSEEK_API_KEY: unset, set but empty, set to a usable key. *)
ApiKeys == {None, "", "sk-live"}

(* What the user can have in the file uploader and in the text field. *)
Uploads == {None, "photo.jpg"}
Texts == {"", "bronze mask"}

(* What the external services can answer. *)
VisionAnswers == {"", "a green bronze face"}
Responses == {"I am the mask.", "I slept for ages."}
Errors == {"Connection error."}

NoClick == "<no click>"
VisionButton == "AI look and speak"
SpeakButton == "let it speak"

NoReply == [ok |-> FALSE, text |-> None]

(* A page run is over: it ran to the end, st.stop() ended it, or an        *)
(* exception reached the page renderer.                                    *)
Ended == {"done", "stopped", "fault"}

VARIABLES
    DEEPSEEK_API_KEY,     \* process environment (after load_dotenv)
    OPENAI_API_KEY,       \* process environment: is OPENAI_API_KEY set
    visionLibs,           \* what `import torch, transformers, PIL` does
    modelCached,          \* st.cache_resource holds load_vision_model's result
    fs,                   \* working directory: path -> file content
    pc,                   \* per session: position in the script
    widgets,              \* per session: widget values of this run
    VISION_AVAILABLE,
    use_vision,
    artifact_description,
    reply,                \* per session: what the chat service did in this run
    story,
    output_file,          \* per session: the path generate_audio saves to
    offset,               \* per session: write position of the open audio file
    played,               \* per session: the bytes st.audio read
    log,                  \* per session: calls and page elements of this run
    intruded              \* per session: another session wrote the audio file
                          \* between this run's open and its playback

env == <<DEEPSEEK_API_KEY, OPENAI_API_KEY, visionLibs>>
locals == <<VISION_AVAILABLE, use_vision, artifact_description, reply, story,
            output_file>>
audio == <<fs, offset, played, intruded>>
vars == <<env, modelCached, audio, pc, widgets, locals, log>>

(* --------------------------------------------------------------- helpers *)

Has(l, op) == \E i \in DOMAIN l : l[i][1] = op
Events(l, op) == SelectSeq(l, LAMBDA e : e[1] = op)
Pos(l, op) == CHOOSE i \in DOMAIN l : l[i][1] = op

Goto(s, label) == pc' = [pc EXCEPT ![s] = label]
Emit(s, l) == log' = [log EXCEPT ![s] = l]

(* One streamed chunk of the audio of `text`, and the whole audio. *)
Chunk(text, i) == <<text, i>>
Hole == <<"", 0>>
Audio(text) == [i \in 1..NChunks |-> Chunk(text, i)]

Max(a, b) == IF a > b THEN a ELSE b

(* A write of chunk c at position pos through a file handle. *)
WriteAt(f, pos, c) ==
    [i \in 1..Max(Len(f), pos) |->
        IF i = pos THEN c ELSE IF i <= Len(f) THEN f[i] ELSE Hole]

(* --------------------------------------------------------- pure functions *)

PromptHead == "I showed you a picture of an artifact; its features are: "
PromptTail == ". Guess who you may be and introduce yourself in first person, under 150 characters."
SystemPrompt == "You are an artifact in a museum, full of character and feeling."

Prompt(description) == PromptHead \o description \o PromptTail

Placeholder(e) == "Aiya, I cannot see myself clearly... (" \o e \o ")"

(* Faulty variant: the prompt leaves the description out. *)
get_artifact_story_no_embed(description, r) ==
    [request |-> <<"chat", "deepseek-chat", SystemPrompt, PromptHead \o PromptTail>>,
     raised |-> FALSE,
     value |-> IF r.ok THEN r.text ELSE Placeholder(r.text)]

(* Faulty variant: the exception of the chat call is not caught. *)
get_artifact_story_reraise(description, r) ==
    [request |-> <<"chat", "deepseek-chat", SystemPrompt, Prompt(description)>>,
     raised |-> ~r.ok,
     value |-> IF r.ok THEN r.text ELSE None]

(* get_artifact_story with the service's outcome r made explicit: the      *)
(* request it sends, whether it raises, and what it returns.               *)
get_artifact_story(description, r) ==
    [request |-> <<"chat", "deepseek-chat", SystemPrompt, Prompt(description)>>,
     raised |-> FALSE,
     value |-> IF r.ok THEN r.text ELSE Placeholder(r.text)]

(* What the chat service can do with the client's key: DeepSeek accepts    *)
(* only a DeepSeek key, so any other key ends in an authentication error.  *)
ChatOutcomes ==
    {[ok |-> FALSE, text |-> e] : e \in Errors}
    \cup (IF DEEPSEEK_API_KEY = "sk-live"
          THEN {[ok |-> TRUE, text |-> r] : r \in Responses}
          ELSE {})

(* generate_audio: the Communicate it builds and the file it saves to. *)
(* Faulty variant: saves to the parameter's default, output.mp3. *)
generate_audio_default_path(text, file) ==
    [communicate |-> <<"Communicate", text, "zh-CN-YunxiNeural">>,
     save |-> "output.mp3"]

generate_audio(text, file) ==
    [communicate |-> <<"Communicate", text, "zh-CN-YunxiNeural">>,
     save |-> file]

(* Line 146: the one path every run writes and plays. *)
OutputFile == "artifact_voice.mp3"

(* `if artifact_description:` *)
(* Faulty variant: `if artifact_description is not None:` *)
GateOpenNotNone(description) == description # None

GateOpen(description) == description # ""

(* The sidebar's use_vision. *)
(* Faulty variant: vision is on whenever the libraries are there. *)
UseVisionIgnoresToggle(available, toggle) == available

UseVision(available, toggle) == IF available THEN toggle ELSE FALSE

(* ---------------------------------------------------------------- state *)

DefaultWidgets ==
    [upload |-> None, toggle |-> FALSE, text |-> "", click |-> NoClick]

Init ==
    /\ DEEPSEEK_API_KEY \in ApiKeys
    /\ OPENAI_API_KEY \in BOOLEAN
    /\ visionLibs \in {"ok", "ImportError", "Exception"}
    /\ modelCached = FALSE
    /\ fs = [p \in {OutputFile, "output.mp3"} |-> <<>>]
    /\ pc = [s \in Sessions |-> "import"]
    /\ widgets = [s \in Sessions |-> DefaultWidgets]
    /\ VISION_AVAILABLE = [s \in Sessions |-> FALSE]
    /\ use_vision = [s \in Sessions |-> FALSE]
    /\ artifact_description = [s \in Sessions |-> None]
    /\ reply = [s \in Sessions |-> NoReply]
    /\ story = [s \in Sessions |-> None]
    /\ output_file = [s \in Sessions |-> None]
    /\ offset = [s \in Sessions |-> 0]
    /\ played = [s \in Sessions |-> <<>>]
    /\ log = [s \in Sessions |-> <<>>]
    /\ intruded = [s \in Sessions |-> FALSE]

(* --------------------------------------------------------------- actions *)

(* What the user can do to the page the last run rendered: each           *)
(* interaction changes one widget and makes Streamlit re-execute the       *)
(* script from the top.  A button reads True only in the run its click     *)
(* caused; a widget the last run did not render has lost its value.        *)
Rendered(s, widget) == Has(log[s], widget)
Clickable(s) == {log[s][i][2] : i \in {j \in DOMAIN log[s] : log[s][j][1] = "st.button"}}

Settled(s) ==
    [upload |-> IF Rendered(s, "st.file_uploader") THEN widgets[s].upload ELSE None,
     toggle |-> IF Rendered(s, "st.toggle") THEN widgets[s].toggle ELSE FALSE,
     text |-> IF Rendered(s, "st.text_input") THEN widgets[s].text ELSE "",
     click |-> NoClick]

Interactions(s) ==
    {Settled(s), DefaultWidgets}
    \cup {[Settled(s) EXCEPT !.upload = u] : u \in Uploads}
    \cup (IF Rendered(s, "st.toggle")
          THEN {[Settled(s) EXCEPT !.toggle = ~@]} ELSE {})
    \cup (IF Rendered(s, "st.text_input")
          THEN {[Settled(s) EXCEPT !.text = d] : d \in Texts} ELSE {})
    \cup {[Settled(s) EXCEPT !.click = b] : b \in Clickable(s)}

Rerun(s) ==
    /\ pc[s] \in Ended
    /\ \E w \in Interactions(s) : widgets' = [widgets EXCEPT ![s] = w]
    /\ VISION_AVAILABLE' = [VISION_AVAILABLE EXCEPT ![s] = FALSE]
    /\ use_vision' = [use_vision EXCEPT ![s] = FALSE]
    /\ artifact_description' = [artifact_description EXCEPT ![s] = None]
    /\ reply' = [reply EXCEPT ![s] = NoReply]
    /\ story' = [story EXCEPT ![s] = None]
    /\ output_file' = [output_file EXCEPT ![s] = None]
    /\ offset' = [offset EXCEPT ![s] = 0]
    /\ played' = [played EXCEPT ![s] = <<>>]
    /\ intruded' = [intruded EXCEPT ![s] = FALSE]
    /\ Emit(s, <<>>)
    /\ Goto(s, "import")
    /\ UNCHANGED <<env, modelCached, fs>>

(* Lines 18-28: the guarded import of torch, transformers and PIL. *)
ImportVision(s) ==
    /\ pc[s] = "import"
    /\ VISION_AVAILABLE' = [VISION_AVAILABLE EXCEPT ![s] = (visionLibs = "ok")]
    /\ Emit(s, IF visionLibs = "ImportError"
               THEN Append(log[s], <<"st.error", "vision libraries failed to load">>)
               ELSE log[s])
    /\ Goto(s, "client")
    /\ UNCHANGED <<env, modelCached, audio, widgets, use_vision,
                   artifact_description, reply, story, output_file>>

(* Lines 31-34: OpenAI(api_key=os.getenv("DEEPSEEK_API_KEY"), ...).  With  *)
(* api_key=None the constructor falls back to OPENAI_API_KEY and raises    *)
(* OpenAIError when that is unset too; nothing catches it.                 *)
ClientRaises == DEEPSEEK_API_KEY = None /\ ~OPENAI_API_KEY

InitClient(s) ==
    /\ pc[s] = "client"
    /\ IF ClientRaises
       THEN /\ Emit(s, Append(log[s], <<"raised", "OpenAI">>))
            /\ Goto(s, "fault")
       ELSE /\ Emit(s, log[s])
            /\ Goto(s, "sidebar")
    /\ UNCHANGED <<env, modelCached, audio, widgets, locals>>

(* Lines 37-50: the settings sidebar. *)
KeyBanner == IF DEEPSEEK_API_KEY \in {None, ""} THEN "st.warning" ELSE "st.success"

Sidebar(s) ==
    /\ pc[s] = "sidebar"
    /\ Emit(s, log[s] \o <<(<<"st.header", "Settings">>), <<KeyBanner, "API key">>>>
               \o (IF VISION_AVAILABLE[s] THEN <<(<<"st.toggle">>)>>
                   ELSE <<(<<"st.caption", "Vision unavailable">>)>>))
    /\ use_vision' = [use_vision EXCEPT
                        ![s] = UseVision(VISION_AVAILABLE[s], widgets[s].toggle)]
    /\ Goto(s, "main")
    /\ UNCHANGED <<env, modelCached, audio, widgets, VISION_AVAILABLE,
                   artifact_description, reply, story, output_file>>

(* Lines 110-113 with no file in the uploader: the script ends. *)
NoUpload(s) ==
    /\ pc[s] = "main"
    /\ widgets[s].upload = None
    /\ Emit(s, Append(log[s], <<"st.file_uploader">>))
    /\ Goto(s, "done")
    /\ UNCHANGED <<env, modelCached, audio, widgets, locals>>

(* Lines 113-119: the image is shown and the branch is chosen. *)
ShowUpload(s) ==
    /\ pc[s] = "main"
    /\ widgets[s].upload # None
    /\ Emit(s, log[s] \o <<(<<"st.file_uploader">>), <<"st.image", widgets[s].upload>>>>)
    /\ artifact_description' = [artifact_description EXCEPT ![s] = ""]
    /\ Goto(s, IF use_vision[s] THEN "vision" ELSE "manual")
    /\ UNCHANGED <<env, modelCached, audio, widgets, VISION_AVAILABLE,
                   use_vision, reply, story, output_file>>

(* Line 120: the vision button. *)
PressVision(s) ==
    /\ pc[s] = "vision"
    /\ Emit(s, Append(log[s], <<"st.button", VisionButton>>))
    /\ Goto(s, IF widgets[s].click = VisionButton THEN "load" ELSE "gate")
    /\ UNCHANGED <<env, modelCached, audio, widgets, locals>>

(* Lines 132-135: the text field, and the button behind `and`. *)
ManualInput(s) ==
    /\ pc[s] = "manual"
    /\ artifact_description' = [artifact_description EXCEPT ![s] = widgets[s].text]
    /\ Emit(s, log[s] \o <<(<<"st.text_input", widgets[s].text>>)>>
               \o (IF widgets[s].text # ""
                   THEN <<(<<"st.button", SpeakButton>>)>> ELSE <<>>))
    /\ Goto(s, "gate")
    /\ UNCHANGED <<env, modelCached, audio, widgets, VISION_AVAILABLE, use_vision,
                   reply, story, output_file>>

(* Lines 129-131: the except clause of the vision branch, entered with the *)
(* log l of the step that raised.                                          *)
(* Faulty variant: the except clause without st.stop(). *)
VisionErrorNoStop(s, l) ==
    /\ Emit(s, Append(l, <<"st.error", "vision model failed">>))
    /\ Goto(s, "gate")

VisionError(s, l) ==
    /\ Emit(s, Append(l, <<"st.error", "vision model failed">>))
    /\ Goto(s, "stopped")

(* Lines 53-73 and 123: load_vision_model behind st.cache_resource. *)
LoadVisionModel(s) ==
    /\ pc[s] = "load"
    /\ LET l == Append(log[s], <<"load_vision_model">>) IN
       \/ /\ ~VISION_AVAILABLE[s] \/ modelCached
          /\ modelCached' = modelCached
          /\ Emit(s, l)
          /\ Goto(s, "open")
       \/ /\ VISION_AVAILABLE[s] /\ ~modelCached
          /\ \/ /\ modelCached' = TRUE
                /\ Emit(s, l)
                /\ Goto(s, "open")
             \/ /\ modelCached' = modelCached
                /\ VisionError(s, Append(l, <<"raised", "load_vision_model">>))
    /\ UNCHANGED <<env, audio, widgets, locals>>

(* Line 124: Image.open(uploaded_file); Image is unbound without the libs. *)
ImageOpen(s) ==
    /\ pc[s] = "open"
    /\ LET l == Append(log[s], <<"Image.open">>) IN
       \/ /\ VISION_AVAILABLE[s]
          /\ Emit(s, l)
          /\ Goto(s, "encode")
       \/ VisionError(s, Append(l, <<"raised", "Image.open">>))
    /\ UNCHANGED <<env, modelCached, audio, widgets, locals>>

(* Line 126: vision_model.encode_image(image). *)
EncodeImage(s) ==
    /\ pc[s] = "encode"
    /\ LET l == Append(log[s], <<"encode_image">>) IN
       \/ /\ Emit(s, l)
          /\ Goto(s, "answer")
       \/ VisionError(s, Append(l, <<"raised", "encode_image">>))
    /\ UNCHANGED <<env, modelCached, audio, widgets, locals>>

(* Lines 127-128: vision_model.answer_question(...) and st.info. *)
AnswerQuestion(s) ==
    /\ pc[s] = "answer"
    /\ LET l == Append(log[s], <<"answer_question", "Describe this artifact in detail.">>) IN
       \/ \E a \in VisionAnswers :
             /\ artifact_description' = [artifact_description EXCEPT ![s] = a]
             /\ Emit(s, Append(l, <<"st.info", a>>))
             /\ Goto(s, "gate")
       \/ /\ artifact_description' = artifact_description
          /\ VisionError(s, Append(l, <<"raised", "answer_question">>))
    /\ UNCHANGED <<env, modelCached, audio, widgets, VISION_AVAILABLE,
                   use_vision, reply, story, output_file>>

(* Line 138. *)
Gate(s) ==
    /\ pc[s] = "gate"
    /\ Goto(s, IF GateOpen(artifact_description[s]) THEN "story" ELSE "done")
    /\ UNCHANGED <<env, modelCached, audio, widgets, locals, log>>

(* Line 141: story = get_artifact_story(artifact_description). *)
GetStory(s) ==
    /\ pc[s] = "story"
    /\ \E r \in ChatOutcomes :
          LET res == get_artifact_story(artifact_description[s], r) IN
          /\ reply' = [reply EXCEPT ![s] = r]
          /\ IF res.raised
             THEN /\ Emit(s, log[s] \o <<res.request, <<"raised", "get_artifact_story">>>>)
                  /\ story' = story
                  /\ Goto(s, "fault")
             ELSE /\ Emit(s, Append(log[s], res.request))
                  /\ story' = [story EXCEPT ![s] = res.value]
                  /\ Goto(s, "show")
    /\ UNCHANGED <<env, modelCached, audio, widgets, VISION_AVAILABLE,
                   use_vision, artifact_description, output_file>>

(* Lines 142-143. *)
ShowStory(s) ==
    /\ pc[s] = "show"
    /\ Emit(s, log[s] \o <<(<<"st.markdown", "The artifact's own account">>),
                           <<"st.write", story[s]>>>>)
    /\ Goto(s, "tts")
    /\ UNCHANGED <<env, modelCached, audio, widgets, locals>>

(* Lines 146-147 and 77: asyncio.run(generate_audio(story, output_file))   *)
(* up to the Communicate object.                                           *)
GenerateAudio(s) ==
    /\ pc[s] = "tts"
    /\ LET g == generate_audio(story[s], OutputFile) IN
       /\ Emit(s, Append(log[s], g.communicate))
       /\ output_file' = [output_file EXCEPT ![s] = g.save]
    /\ Goto(s, "save")
    /\ UNCHANGED <<env, modelCached, audio, widgets, VISION_AVAILABLE,
                   use_vision, artifact_description, reply, story>>

(* Another session's write lands between t's open and t's playback. *)
Intrude(s) ==
    [t \in Sessions |->
        IF t # s /\ pc[t] \in {"stream", "play"} /\ output_file[t] = output_file[s]
        THEN TRUE ELSE intruded[t]]

(* Line 78, communicate.save: open(output_file, "wb") truncates the file. *)
(* Faulty variant: the file is opened for appending. *)
SaveOpenAppend(s) ==
    /\ pc[s] = "save"
    /\ fs' = fs
    /\ offset' = [offset EXCEPT ![s] = Len(fs[output_file[s]])]
    /\ intruded' = Intrude(s)
    /\ Goto(s, "stream")
    /\ UNCHANGED <<env, modelCached, played, widgets, locals, log>>

SaveOpen(s) ==
    /\ pc[s] = "save"
    /\ fs' = [fs EXCEPT ![output_file[s]] = <<>>]
    /\ offset' = [offset EXCEPT ![s] = 0]
    /\ intruded' = Intrude(s)
    /\ Goto(s, "stream")
    /\ UNCHANGED <<env, modelCached, played, widgets, locals, log>>

(* Line 78, communicate.save: one streamed chunk is written. *)
SaveWrite(s) ==
    /\ pc[s] = "stream"
    /\ Len(Events(log[s], "audio.write")) < NChunks
    /\ LET n == Len(Events(log[s], "audio.write")) + 1 IN
       /\ fs' = [fs EXCEPT ![output_file[s]] =
                    WriteAt(@, offset[s] + 1, Chunk(story[s], n))]
       /\ Emit(s, Append(log[s], <<"audio.write">>))
    /\ offset' = [offset EXCEPT ![s] = @ + 1]
    /\ intruded' = Intrude(s)
    /\ Goto(s, "stream")
    /\ UNCHANGED <<env, modelCached, played, widgets, locals>>

(* Line 78, communicate.save returns: the stream ended, the file is closed. *)
SaveClose(s) ==
    /\ pc[s] = "stream"
    /\ Len(Events(log[s], "audio.write")) = NChunks
    /\ Emit(s, Append(log[s], <<"saved", output_file[s]>>))
    /\ Goto(s, "play")
    /\ UNCHANGED <<env, modelCached, audio, widgets, locals>>

(* Line 147: the speech service fails; nothing catches the exception. *)
(* Faulty variant: the exception is swallowed and the script goes on. *)
SaveFailSwallowed(s) ==
    /\ pc[s] \in {"save", "stream"}
    /\ Emit(s, Append(log[s], <<"raised", "generate_audio">>))
    /\ Goto(s, "play")
    /\ UNCHANGED <<env, modelCached, audio, widgets, locals>>

SaveFail(s) ==
    /\ pc[s] \in {"save", "stream"}
    /\ Emit(s, Append(log[s], <<"raised", "generate_audio">>))
    /\ Goto(s, "fault")
    /\ UNCHANGED <<env, modelCached, audio, widgets, locals>>

(* Lines 150-152: st.audio(output_file) reads the file. *)
PlayAudio(s) ==
    /\ pc[s] = "play"
    /\ played' = [played EXCEPT ![s] = fs[OutputFile]]
    /\ Emit(s, log[s] \o <<(<<"st.audio", OutputFile>>)>>
               \o (IF use_vision[s] THEN <<>> ELSE <<(<<"st.success", "awake">>)>>))
    /\ Goto(s, "done")
    /\ UNCHANGED <<env, modelCached, fs, offset, intruded, widgets, locals>>

Step(s) ==
    \/ Rerun(s)
    \/ ImportVision(s)
    \/ InitClient(s)
    \/ Sidebar(s)
    \/ NoUpload(s)
    \/ ShowUpload(s)
    \/ PressVision(s)
    \/ ManualInput(s)
    \/ LoadVisionModel(s)
    \/ ImageOpen(s)
    \/ EncodeImage(s)
    \/ AnswerQuestion(s)
    \/ Gate(s)
    \/ GetStory(s)
    \/ ShowStory(s)
    \/ GenerateAudio(s)
    \/ SaveOpen(s)
    \/ SaveWrite(s)
    \/ SaveClose(s)
    \/ SaveFail(s)
    \/ PlayAudio(s)

(* One browser session: one page run at a time. *)
Next == \E s \in {"A"} : Step(s)

Spec == Init /\ [][Next]_vars

(* Two browser sessions of one process with the key configured and the    *)
(* vision libraries installed: each session runs its script in a thread    *)
(* of its own, with the working directory shared.                          *)
InitConc ==
    /\ Init
    /\ DEEPSEEK_API_KEY = "sk-live"
    /\ ~OPENAI_API_KEY
    /\ visionLibs = "ok"

NextConc == \E s \in Sessions : Step(s)

SpecConc == InitConc /\ [][NextConc]_vars

(* ---------------------------------------------------------------- claims *)

Shows(s, e) == \E i \in DOMAIN log[s] : log[s][i] = e
Raised(s, what) == Shows(s, <<"raised", what>>)
VisionOps == {"load_vision_model", "Image.open", "encode_image", "answer_question"}
VisionRaised(s) == \E op \in VisionOps : Raised(s, op)
Generated(s) ==
    \/ Has(log[s], "chat")
    \/ Has(log[s], "Communicate")
    \/ Has(log[s], "st.audio")
    \/ played[s] # <<>>

(* Vision is off in this run: the toggle is off or the libraries failed. *)
VisionOff(s) == ~(visionLibs = "ok" /\ widgets[s].toggle)

(* C1: in a page run with an uploaded image, vision off and an empty       *)
(* manual description, get_artifact_story and generate_audio are not       *)
(* called and no audio is played.                                          *)
C1_EmptyDescriptionGeneratesNothing ==
    \A s \in Sessions :
        (widgets[s].upload # None /\ VisionOff(s) /\ widgets[s].text = "")
            => ~Generated(s)

C1_Witness ==
    \E s \in Sessions :
        /\ widgets[s].upload # None /\ VisionOff(s) /\ widgets[s].text = ""
        /\ Shows(s, <<"st.text_input", "">>)
        /\ pc[s] = "done"

(* C2: in a page run with vision off the vision model is neither loaded    *)
(* nor invoked, and the description is the manual text field's value.      *)
C2_VisionOffNeverTouchesModel ==
    \A s \in Sessions :
        VisionOff(s) =>
            /\ \A op \in VisionOps : ~Has(log[s], op)
            /\ ~Shows(s, <<"st.button", VisionButton>>)
            /\ artifact_description[s] \in {None, "", widgets[s].text}
            /\ \A i \in DOMAIN log[s] :
                  log[s][i][1] = "chat" => log[s][i][4] = Prompt(widgets[s].text)

C2_Witness ==
    \E s \in Sessions :
        /\ visionLibs = "ImportError"
        /\ Has(log[s], "chat")
        /\ artifact_description[s] = widgets[s].text
        /\ pc[s] = "done"

(* C3: get_artifact_story makes exactly one chat-completion call, whose    *)
(* user message is the prompt template around the description; it does     *)
(* not raise; it returns the response text on success and the placeholder  *)
(* around the error text on failure.                                       *)
C3_StoryCallAndResult ==
    \A s \in Sessions :
        (Has(log[s], "chat") \/ story[s] # None) =>
            /\ Events(log[s], "chat") =
                  <<(<<"chat", "deepseek-chat", SystemPrompt,
                      PromptHead \o artifact_description[s] \o PromptTail>>)>>
            /\ ~Raised(s, "get_artifact_story")
            /\ story[s] = IF reply[s].ok
                          THEN reply[s].text
                          ELSE "Aiya, I cannot see myself clearly... ("
                               \o reply[s].text \o ")"

C3_Witness ==
    \E s \in Sessions :
        /\ Has(log[s], "chat")
        /\ ~reply[s].ok
        /\ story[s] = Placeholder("Connection error.")
        /\ artifact_description[s] = "a green bronze face"

(* C4 as claimed: when the chat-completion call fails, the placeholder is  *)
(* displayed, generate_audio gets the placeholder, and audio is played.    *)
ChatFailed(s) == Has(log[s], "chat") /\ ~reply[s].ok
PlaceholderSpoken(s) ==
    /\ Shows(s, <<"st.write", Placeholder(reply[s].text)>>)
    /\ Shows(s, <<"Communicate", Placeholder(reply[s].text), "zh-CN-YunxiNeural">>)

C4_Original ==
    \A s \in Sessions :
        (ChatFailed(s) /\ pc[s] \in Ended)
            => PlaceholderSpoken(s) /\ Has(log[s], "st.audio")

(* C4 as amended: when the chat-completion call fails, the run goes on:    *)
(* the placeholder is displayed and generate_audio gets the placeholder;   *)
(* audio is played when generate_audio completes without raising, and      *)
(* only an exception of generate_audio ends the run earlier.               *)
C4_PlaceholderFlowsOn ==
    \A s \in Sessions :
        ChatFailed(s) =>
            /\ pc[s] # "stopped"
            /\ pc[s] = "fault" => Raised(s, "generate_audio")
            /\ pc[s] \in Ended => PlaceholderSpoken(s)
            /\ pc[s] = "done" =>
                  /\ Has(log[s], "saved")
                  /\ Has(log[s], "st.audio")

C4_Witness ==
    \E s \in Sessions :
        /\ ChatFailed(s)
        /\ pc[s] = "done"
        /\ PlaceholderSpoken(s)
        /\ played[s] = Audio(Placeholder(reply[s].text))

(* C5: on the vision path, when loading the model, opening the image or    *)
(* inference raises, the error is shown and the run stops: neither         *)
(* get_artifact_story nor generate_audio is called, no audio is played.    *)
C5_VisionFailureStopsRun ==
    \A s \in Sessions :
        VisionRaised(s) =>
            /\ Shows(s, <<"st.error", "vision model failed">>)
            /\ pc[s] = "stopped"
            /\ ~Generated(s)

C5_Witness ==
    \E s \in Sessions :
        /\ Raised(s, "encode_image")
        /\ pc[s] = "stopped"

(* C6: the text given to the speech service is the narrative returned by   *)
(* get_artifact_story and displayed, the voice is zh-CN-YunxiNeural, and   *)
(* the file played is artifact_voice.mp3, the file the synthesis wrote.    *)
C6_SpeechGetsNarrative ==
    \A s \in Sessions :
        Has(log[s], "Communicate") =>
            /\ Events(log[s], "Communicate") =
                  <<(<<"Communicate", story[s], "zh-CN-YunxiNeural">>)>>
            /\ story[s] = IF reply[s].ok THEN reply[s].text
                          ELSE Placeholder(reply[s].text)
            /\ Shows(s, <<"st.write", story[s]>>)
            /\ output_file[s] = "artifact_voice.mp3"
            /\ Has(log[s], "st.audio") =>
                  /\ Shows(s, <<"saved", "artifact_voice.mp3">>)
                  /\ Events(log[s], "st.audio") = <<(<<"st.audio", "artifact_voice.mp3">>)>>
                  /\ played[s] = Audio(story[s])

C6_Witness ==
    \E s \in Sessions :
        /\ Has(log[s], "st.audio")
        /\ reply[s].ok
        /\ played[s] = Audio(reply[s].text)

(* C7 as claimed: a finished page run shows the warning in the sidebar     *)
(* when DEEPSEEK_API_KEY is absent or empty, and the success state when    *)
(* it is present.                                                          *)
C7_SidebarReportsKey ==
    \A s \in Sessions :
        pc[s] \in Ended =>
            IF DEEPSEEK_API_KEY \in {None, ""}
            THEN Shows(s, <<"st.warning", "API key">>)
                 /\ ~Shows(s, <<"st.success", "API key">>)
            ELSE Shows(s, <<"st.success", "API key">>)

(* C8 as claimed: get_artifact_story is called only in a page run in       *)
(* which the generation button of its path was pressed.                    *)
C8_StoryOnlyOnButton ==
    \A s \in Sessions :
        Has(log[s], "chat") =>
            widgets[s].click = (IF use_vision[s] THEN VisionButton ELSE SpeakButton)

(* C9: in a page run every step happens at most once and in the order      *)
(* upload, description, narrative, speech synthesis, playback; the         *)
(* narrative needs an upload and a non-empty description, the synthesis    *)
(* needs the narrative, playback needs a synthesis that did not raise; a   *)
(* failed synthesis leaves the narrative displayed and no audio played.    *)
OnceOps ==
    VisionOps \cup {"st.image", "st.text_input", "chat", "st.write", "Communicate",
                    "saved", "st.audio", "raised"}

C9_LinearFlow ==
    \A s \in Sessions :
        /\ \A op \in OnceOps : Len(Events(log[s], op)) <= 1
        /\ Len(Events(log[s], "audio.write")) <= NChunks
        /\ Has(log[s], "chat") =>
              /\ widgets[s].upload # None
              /\ Has(log[s], "st.image")
              /\ Pos(log[s], "st.image") < Pos(log[s], "chat")
              /\ artifact_description[s] \notin {None, ""}
              /\ Has(log[s], "st.text_input") \/ Has(log[s], "answer_question")
        /\ Has(log[s], "Communicate") =>
              /\ Has(log[s], "chat") /\ Has(log[s], "st.write")
              /\ Pos(log[s], "chat") < Pos(log[s], "st.write")
              /\ Pos(log[s], "st.write") < Pos(log[s], "Communicate")
              /\ story[s] # None
        /\ Has(log[s], "audio.write") => Has(log[s], "Communicate")
        /\ Has(log[s], "st.audio") =>
              /\ Has(log[s], "Communicate") /\ Has(log[s], "saved")
              /\ Pos(log[s], "Communicate") < Pos(log[s], "saved")
              /\ Pos(log[s], "saved") < Pos(log[s], "st.audio")
              /\ ~Raised(s, "generate_audio")
        /\ Raised(s, "generate_audio") =>
              /\ Shows(s, <<"st.write", story[s]>>)
              /\ ~Has(log[s], "st.audio")
              /\ played[s] = <<>>
              /\ pc[s] = "fault"

C9_Witness ==
    \E s \in Sessions :
        /\ Raised(s, "generate_audio")
        /\ Has(log[s], "audio.write")
        /\ Shows(s, <<"st.write", story[s]>>)
        /\ pc[s] = "fault"

(* C10: a session plays audio other than that of its own narrative only    *)
(* when another session wrote artifact_voice.mp3 between this session's    *)
(* open of the file and its playback; the witness is the interleaving in   *)
(* which one session plays the audio of the other's narrative.             *)
C10_OwnAudioUnlessOverwritten ==
    \A s \in Sessions :
        Has(log[s], "st.audio") =>
            \/ played[s] = Audio(story[s])
            \/ intruded[s]

C10_Witness ==
    \E s \in Sessions : \E t \in Sessions \ {s} :
        /\ Has(log[s], "st.audio")
        /\ Shows(s, <<"st.write", story[s]>>)
        /\ story[t] # story[s]
        /\ story[t] # None
        /\ played[s] = Audio(story[t])

====
